---- MODULE Spec2Model ----
(***************************************************************************)
(* Expense tracker REST backend (Express + Prisma + PostgreSQL).           *)
(*                                                                         *)
(* The state is the three tables (users, categories, expenses), the clock, *)
(* the tokens handed to clients and the requests in flight.  A request is  *)
(* served by the authenticate middleware and then by its controller; every *)
(* awaited database statement is one atomic step, so the statements of two *)
(* requests in flight interleave freely.                                   *)
(*                                                                         *)
(* Money: request bodies carry JS numbers, modelled in thousandths         *)
(* ("mills"); the DECIMAL(10,2) columns hold hundredths ("cents").         *)
(* Dates are day numbers; the clock `now` counts days.                     *)
(***************************************************************************)
EXTENDS Integers, Sequences, FiniteSets, TLC

(* ------------------------------ bounds -------------------------------- *)
MaxRequests == 3
MaxInFlight == 2
MaxNow == 8
TickDays == 4

(* ------------------------- program constants -------------------------- *)
TokenLifetimeDays == 7

(* ------------------------------ options ------------------------------- *)
\* null / undefined is the empty set, a present value v is {v}
Null == {}
Some(v) == {v}
Val(s) == CHOOSE v \in s : TRUE

(* ------------------------------ inputs -------------------------------- *)
Procs == 1..MaxInFlight
Emails == {"a@x.io", "b@x.io"}

DefaultCategories ==
  { [name |-> "Food",          monthlyLimit |-> 500],
    [name |-> "Transport",     monthlyLimit |-> 200],
    [name |-> "Rent",          monthlyLimit |-> 1000],
    [name |-> "Utilities",     monthlyLimit |-> 150],
    [name |-> "Entertainment", monthlyLimit |-> 200] }

DefaultOrder == <<"Food", "Transport", "Rent", "Utilities", "Entertainment">>

VARIABLES users, categories, expenses, nextId, now, tokens, req, nreq

vars == <<users, categories, expenses, nextId, now, tokens, req, nreq>>

(* --------------------------- fixed point ------------------------------ *)
\* a JS number of m thousandths written to a DECIMAL(10,2) column:
\* PostgreSQL rounds to the column's scale, ties away from zero
ToDecimal2(m) == IF m >= 0 THEN (m + 5) \div 10 ELSE -((5 - m) \div 10)

(* ---------------------------- responses ------------------------------- *)
Idle ==
  [op |-> "idle", pc |-> "idle", hdr |-> Null, user |-> 0,
   email |-> "", password |-> "", nameLen |-> 0,
   id |-> 0, name |-> Null, limit |-> Null,
   amount |-> Null, date |-> Null, categoryId |-> Null,
   month |-> Null, period |-> "", page |-> Null, size |-> Null,
   today |-> 0, n |-> 0, next |-> "",
   statusCode |-> 200, status |-> 0, msg |-> "", sends |-> 0,
   stmts |-> 0, data |-> {}, rows |-> <<>>, series |-> {},
   breakdown |-> <<>>, timeline |-> <<>>,
   nodeEnv |-> Null, error |-> "",
   junk |-> {}, skip |-> Null, take |-> Null,
   total |-> 0, totalPages |-> Null]

\* res.status(code).json(body): the first body sent is the client's response;
\* a later send on the same response throws ERR_HTTP_HEADERS_SENT and is lost
Reply(r, code, msg) ==
  [r EXCEPT !.statusCode = code,
            !.status = IF r.sends = 0 THEN code ELSE @,
            !.msg = IF r.sends = 0 THEN msg ELSE @,
            !.sends = @ + 1]

Finish(r, code, msg) == [Reply(r, code, msg) EXCEPT !.pc = "done"]

\* the error field of a body sent by errorHandler, kept if it is the first
\* body of the response
WithError(r, sent, error) ==
  [sent EXCEPT !.error = IF r.sends = 0 THEN error ELSE @]

\* process.env.NODE_ENV === "production" ? "Server Error" : err.stack, with
\* r.nodeEnv the NODE_ENV of the server process (Null when it is not set)
ErrorField(r) ==
  IF r.nodeEnv = Some("production") THEN "Server Error" ELSE "err.stack"

\* errorHandler, reached by next(err); the message is err.message
ErrorHandler(r, errName) ==
  IF errName = "JsonWebTokenError"
    THEN WithError(r, Finish(r, 401, "Invalid authentication token"),
                   "Authentication error")
  ELSE IF errName = "TokenExpiredError"
    THEN WithError(r, Finish(r, 401, "Authentication token expired"),
                   "Authentication error")
  ELSE WithError(r, Finish(r, IF r.statusCode # 200 THEN r.statusCode ELSE 500,
                           errName),
                 ErrorField(r))

(* ------------------------------ schema -------------------------------- *)
\* CREATE UNIQUE INDEX users_email_key ON users(email)
UsersEmailKey(email) == \A u \in users : u.email # email

\* a categories table without the (user_id, name) index: any row set is accepted
NoCategoriesUserIdNameKey(cs) == TRUE

\* CREATE UNIQUE INDEX categories_user_id_name_key ON categories(user_id, name)
\* holds for the row set cs
CategoriesUserIdNameKey(cs) ==
  \A c1 \in cs, c2 \in cs :
    (c1.userId = c2.userId /\ c1.name = c2.name) => c1.id = c2.id

(* ------------------------------- auth --------------------------------- *)
\* jwt.sign({userId}, secret, {expiresIn: "7d"})
GenerateToken(userId) ==
  [userId |-> userId, iat |-> now, exp |-> now + TokenLifetimeDays, sig |-> TRUE]

\* a verification that looks at the signature only
JwtVerifySignatureOnly(t) == t.sig

\* jwt.verify(token, secret): the signature is genuine and the token not expired
JwtVerifyOK(t) == t.sig /\ now < t.exp

Init ==
  /\ users = {}
  /\ categories = {}
  /\ expenses = {}
  /\ nextId = 1
  /\ now = 0
  /\ tokens = {}
  /\ req = [p \in Procs |-> Idle]
  /\ nreq = 0

\* time passes
Tick ==
  /\ now + TickDays <= MaxNow
  /\ now' = now + TickDays
  /\ UNCHANGED <<users, categories, expenses, nextId, tokens, req, nreq>>

\* a users row is deleted in the database (no route does it); its
\* categories and expenses go with it, ON DELETE CASCADE
DeleteUserRow ==
  /\ \E u \in users :
       /\ users' = users \ {u}
       /\ categories' = {c \in categories : c.userId # u.id}
       /\ expenses' = {e \in expenses : e.userId # u.id}
  /\ UNCHANGED <<nextId, now, tokens, req, nreq>>

(* ------------------------- request validation ------------------------- *)
\* a truthy JS number: present and not 0
Truthy(o) == o # Null /\ Val(o) # 0

\* z.string().email() on the strings the clients send
IsEmail(s) == s \in Emails

\* registerSchema / loginSchema
RegisterSchemaOK(r) ==
  /\ r.nameLen >= 2 /\ r.nameLen <= 50
  /\ IsEmail(r.email)
  /\ Len(r.password) >= 6 /\ Len(r.password) <= 100
LoginSchemaOK(r) ==
  /\ IsEmail(r.email)
  /\ Len(r.password) >= 6 /\ Len(r.password) <= 100

\* createCategorySchema / updateCategorySchema
CreateCategorySchemaOK(r) ==
  /\ r.name # Null /\ Val(r.name) # ""
  /\ r.limit # Null => Val(r.limit) >= 0
UpdateCategorySchemaOK(r) ==
  /\ r.name # Null => Val(r.name) # ""
  /\ r.limit # Null => Val(r.limit) >= 0

\* z.string().uuid(): the rows' ids are uuids, numbered from 1 here; 0 is a
\* string that is not a uuid
IsUuid(id) == id >= 1

\* createExpenseSchema / updateExpenseSchema; a date string is
\* [ok |-> !isNaN(Date.parse(s)), day |-> the day it parses to]
CreateExpenseSchemaOK(r) ==
  /\ r.amount # Null /\ Val(r.amount) > 0
  /\ r.categoryId # Null /\ IsUuid(Val(r.categoryId))
  /\ r.date # Null /\ Val(r.date).ok
UpdateExpenseSchemaOK(r) ==
  /\ r.amount # Null => Val(r.amount) > 0
  /\ r.categoryId # Null => IsUuid(Val(r.categoryId))
  /\ r.date # Null => Val(r.date).ok

Step(r, pc) == [r EXCEPT !.pc = pc]

\* the controller's synchronous prefix: parse the input, then issue the
\* first database statement
Enter(r) ==
  CASE r.op = "register" ->
         IF RegisterSchemaOK(r) THEN Step(r, "reg_find")
                                ELSE ErrorHandler(r, "ZodError")
    [] r.op = "login" ->
         IF LoginSchemaOK(r) THEN Step(r, "login_find")
                             ELSE ErrorHandler(r, "ZodError")
    [] r.op = "getCurrentUser" -> Step(r, "me_find")
    [] r.op = "getAllCategories" -> Step(r, "cat_list")
    [] r.op = "getCategoryById" -> Step(r, "cat_get")
    [] r.op = "createCategory" ->
         IF CreateCategorySchemaOK(r) THEN Step(r, "cat_create_find")
                                      ELSE ErrorHandler(r, "ZodError")
    [] r.op = "updateCategory" ->
         IF UpdateCategorySchemaOK(r) THEN Step(r, "cat_update_find")
                                      ELSE ErrorHandler(r, "ZodError")
    [] r.op = "deleteCategory" -> Step(r, "cat_delete_find")
    [] r.op = "getCategorySummary" ->
         IF r.month = Null
           THEN Finish(r, 400, "Month parameter required in format YYYY-MM")
           ELSE Step(r, "cat_summary")
    [] r.op = "getAllExpenses" -> Step(r, "exp_count")
    [] r.op = "getExpenseById" -> Step(r, "exp_get")
    [] r.op = "createExpense" ->
         IF CreateExpenseSchemaOK(r) THEN Step(r, "exp_create_cat")
                                     ELSE ErrorHandler(r, "ZodError")
    [] r.op = "updateExpense" ->
         IF UpdateExpenseSchemaOK(r) THEN Step(r, "exp_update_find")
                                     ELSE ErrorHandler(r, "ZodError")
    [] r.op = "deleteExpense" -> Step(r, "exp_delete_find")
    [] r.op = "getExpensesSummary" ->
         Step([r EXCEPT !.today = now], "exp_sum_cat")
    [] r.op \in {"health", "index"} -> Finish(r, 200, "")

\* a routing table that leaves GET /auth/me open
ProtectedButMe(op) ==
  op \notin {"register", "login", "health", "index", "getCurrentUser"}

\* routes behind router.use(authenticate) or with authenticate in the chain:
\* all but signup, login, GET /health and GET /api
Protected(op) == op \notin {"register", "login", "health", "index"}

\* authenticate, up to its awaited user lookup
Authenticate(r) ==
  IF r.hdr = Null
    THEN Finish(r, 401, "Authorization token required")
  ELSE IF ~JwtVerifyOK(Val(r.hdr))
    THEN Finish(r, 401, "Invalid or expired token")
  ELSE Step(r, "auth_user")

\* a request reaches its route, while fewer than budget requests have come
ArriveWithin(p, r, budget) ==
  /\ req[p].pc = "idle"
  /\ nreq < budget
  /\ nreq' = nreq + 1
  /\ req' = [req EXCEPT ![p] = IF Protected(r.op) THEN Authenticate(r)
                                                   ELSE Enter(r)]
  /\ UNCHANGED <<users, categories, expenses, nextId, now, tokens>>

Arrive(p, r) == ArriveWithin(p, r, MaxRequests)

\* a lookup that finds a row for any id
UserExistsAlways(uid) == TRUE

\* prisma.user.findUnique({where: {id: decoded.userId}}) finds a row
UserExists(uid) == \E u \in users : u.id = uid

\* authenticate: the user lookup, req.user = {userId}, then next()
AuthUser(p) ==
  /\ req[p].pc = "auth_user"
  /\ LET r == [req[p] EXCEPT !.stmts = @ + 1]
         uid == Val(r.hdr).userId
     IN req' = [req EXCEPT ![p] =
                  IF UserExists(uid)
                    THEN Enter([r EXCEPT !.user = uid])
                    ELSE Finish(r, 401, "User not found or unauthorized")]
  /\ UNCHANGED <<users, categories, expenses, nextId, now, tokens, nreq>>

\* the response has gone out; the connection slot is free again
Close(p) ==
  /\ req[p].pc = "done"
  /\ req' = [req EXCEPT ![p] = Idle]
  /\ UNCHANGED <<users, categories, expenses, nextId, now, tokens, nreq>>

\* the server process exits while requests are being served: every request
\* without a response is dropped where it stands; the database keeps what
\* the statements that finished have written
Crash ==
  /\ \E p \in Procs : req[p].pc \notin {"idle", "done", "crashed"}
  /\ req' = [p \in Procs |->
               IF req[p].pc \in {"idle", "done", "crashed"} THEN req[p]
               ELSE [req[p] EXCEPT !.pc = "crashed"]]
  /\ UNCHANGED <<users, categories, expenses, nextId, now, tokens, nreq>>

\* startServer: the server listens again, the dropped connections are gone
Restart ==
  /\ \E p \in Procs : req[p].pc = "crashed"
  /\ req' = [p \in Procs |-> IF req[p].pc = "crashed" THEN Idle ELSE req[p]]
  /\ UNCHANGED <<users, categories, expenses, nextId, now, tokens, nreq>>

\* a statement that only reads: the request moves on, nothing else changes
ReadOnly(p, r) ==
  /\ req' = [req EXCEPT ![p] = r]
  /\ UNCHANGED <<users, categories, expenses, nextId, now, tokens, nreq>>

\* the request record as the statement at pc is executed
At(p, pc) == req[p].pc = pc
Stmt(p) == [req[p] EXCEPT !.stmts = @ + 1]

(* ----------------------------- register ------------------------------- *)
\* prisma.user.findUnique({where: {email}}); a hit sends 400 and, with no
\* return after it, the handler goes on to hash and create
RegisterFind(p) ==
  /\ At(p, "reg_find")
  /\ ReadOnly(p, IF \E u \in users : u.email = req[p].email
                   THEN Reply(Step(Stmt(p), "reg_create"), 400,
                              "User with this email already exists")
                   ELSE Step(Stmt(p), "reg_create"))

\* the rows prisma.user.create inserts with the nested categories.create
NewUser(r) == [id |-> nextId, email |-> r.email, password |-> r.password]
\* a nested create that stops before the last default category
NewUserCategoriesFour ==
  { [id |-> nextId + i, userId |-> nextId, name |-> DefaultOrder[i],
     monthlyLimit |-> Some(100 * (CHOOSE d \in DefaultCategories :
                                    d.name = DefaultOrder[i]).monthlyLimit)]
    : i \in 1..(Len(DefaultOrder) - 1) }

\* a user row written without its nested categories
NewUserCategoriesNone == {}

NewUserCategories ==
  { [id |-> nextId + i, userId |-> nextId, name |-> DefaultOrder[i],
     monthlyLimit |-> Some(100 * (CHOOSE d \in DefaultCategories :
                                    d.name = DefaultOrder[i]).monthlyLimit)]
    : i \in 1..Len(DefaultOrder) }

\* prisma.user.create (one statement, atomic), generateToken, 201
RegisterCreate(p) ==
  /\ At(p, "reg_create")
  /\ IF UsersEmailKey(req[p].email)
       THEN /\ users' = users \cup {NewUser(req[p])}
            /\ categories' = categories \cup NewUserCategories
            /\ nextId' = nextId + 1 + Len(DefaultOrder)
            /\ tokens' = tokens \cup {GenerateToken(nextId)}
            /\ req' = [req EXCEPT ![p] =
                         Finish([Stmt(p) EXCEPT !.user = nextId], 201,
                                "User registered successfully")]
       ELSE /\ req' = [req EXCEPT ![p] = ErrorHandler(Stmt(p), "P2002")]
            /\ UNCHANGED <<users, categories, nextId, tokens>>
  /\ UNCHANGED <<expenses, now, nreq>>

(* ------------------------------- login -------------------------------- *)
\* a login that tells an unknown email from a wrong password
LoginOutcomeTelling(us, r) ==
  LET hit == {u \in us : u.email = r.email}
  IN IF hit = {} THEN Finish(r, 404, "User not found")
     ELSE IF Val(hit).password # r.password
       THEN Finish(r, 400, "Invalid credentials")
     ELSE Finish([r EXCEPT !.user = Val(hit).id], 200, "Login successful")

\* login's response over the users table us: findUnique({where: {email}}),
\* then bcrypt.compare
LoginOutcome(us, r) ==
  LET hit == {u \in us : u.email = r.email}
  IN IF hit = {} THEN Finish(r, 400, "Invalid credentials")
     ELSE IF Val(hit).password # r.password
       THEN Finish(r, 400, "Invalid credentials")
     ELSE Finish([r EXCEPT !.user = Val(hit).id], 200, "Login successful")

\* login: the lookup, the comparison and, on success, generateToken
LoginFind(p) ==
  /\ At(p, "login_find")
  /\ LET out == LoginOutcome(users, Stmt(p))
     IN /\ req' = [req EXCEPT ![p] = out]
        /\ tokens' = IF out.status = 200
                       THEN tokens \cup {GenerateToken(out.user)} ELSE tokens
  /\ UNCHANGED <<users, categories, expenses, nextId, now, nreq>>

\* getCurrentUser: prisma.user.findUnique({where: {id: req.user.userId}})
GetCurrentUser(p) ==
  /\ At(p, "me_find")
  /\ ReadOnly(p, IF \E u \in users : u.id = req[p].user
                   THEN Finish(Stmt(p), 200, "")
                   ELSE Finish(Stmt(p), 404, "User not found"))

(* ---------------------------- categories ------------------------------ *)
\* prisma.category.findUnique({where: {id, userId}})
FindCategory(id, userId) == {c \in categories : c.id = id /\ c.userId = userId}

\* prisma.category.findFirst({where: {name, userId, id: {not: id}}})
FindCategoryNamed(name, userId, notId) ==
  {c \in categories : c.name = name /\ c.userId = userId /\ c.id # notId}

\* prisma.expense.count({where: {categoryId: id}})
CountExpensesOf(id) == Cardinality({e \in expenses : e.categoryId = Some(id)})

\* getAllCategories: findMany({where: {userId}})
GetAllCategories(p) ==
  /\ At(p, "cat_list")
  /\ ReadOnly(p, [Finish(Stmt(p), 200, "") EXCEPT
                    !.data = {c \in categories : c.userId = req[p].user}])

\* getCategoryById
GetCategoryById(p) ==
  /\ At(p, "cat_get")
  /\ LET hit == FindCategory(req[p].id, req[p].user)
     IN ReadOnly(p, IF hit = {} THEN Finish(Stmt(p), 404, "Category not found")
                    ELSE [Finish(Stmt(p), 200, "") EXCEPT !.data = hit])

\* createCategory: the duplicate-name check
CreateCategoryFind(p) ==
  /\ At(p, "cat_create_find")
  /\ ReadOnly(p, IF FindCategoryNamed(Val(req[p].name), req[p].user, 0) # {}
                   THEN Finish(Stmt(p), 400,
                               "You already have a category with this name")
                   ELSE Step(Stmt(p), "cat_create"))

\* the row createCategory hands to prisma.category.create:
\* monthlyLimit ? monthlyLimit.toString() : null
CreateCategoryData(r) ==
  [id |-> nextId, userId |-> r.user, name |-> Val(r.name),
   monthlyLimit |-> IF Truthy(r.limit) THEN Some(ToDecimal2(Val(r.limit)))
                                       ELSE Null]

\* createCategory: prisma.category.create
CreateCategory(p) ==
  /\ At(p, "cat_create")
  /\ LET row == CreateCategoryData(req[p])
     IN IF CategoriesUserIdNameKey(categories \cup {row})
          THEN /\ categories' = categories \cup {row}
               /\ nextId' = nextId + 1
               /\ req' = [req EXCEPT ![p] =
                            [Finish(Stmt(p), 201, "Category created successfully")
                               EXCEPT !.data = {row}]]
          ELSE /\ req' = [req EXCEPT ![p] = ErrorHandler(Stmt(p), "P2002")]
               /\ UNCHANGED <<categories, nextId>>
  /\ UNCHANGED <<users, expenses, now, tokens, nreq>>

\* updateCategory: the ownership check, then whether the name changes
UpdateCategoryFind(p) ==
  /\ At(p, "cat_update_find")
  /\ LET hit == FindCategory(req[p].id, req[p].user)
     IN ReadOnly(p,
          IF hit = {} THEN Finish(Stmt(p), 404, "Category not found")
          ELSE IF req[p].name # Null /\ Val(req[p].name) # Val(hit).name
            THEN Step(Stmt(p), "cat_update_dup")
          ELSE Step(Stmt(p), "cat_update"))

\* updateCategory: the duplicate-name check
UpdateCategoryDup(p) ==
  /\ At(p, "cat_update_dup")
  /\ ReadOnly(p, IF FindCategoryNamed(Val(req[p].name), req[p].user, req[p].id) # {}
                   THEN Finish(Stmt(p), 400,
                               "You already have a category with this name")
                   ELSE Step(Stmt(p), "cat_update"))

\* the row after updateCategory's patch:
\* monthlyLimit !== undefined ? monthlyLimit.toString() : undefined
UpdateCategoryData(c, r) ==
  [c EXCEPT !.name = IF r.name # Null THEN Val(r.name) ELSE @,
            !.monthlyLimit = IF r.limit # Null
                               THEN Some(ToDecimal2(Val(r.limit))) ELSE @]

\* updateCategory: prisma.category.update({where: {id, userId}})
UpdateCategory(p) ==
  /\ At(p, "cat_update")
  /\ LET hit == FindCategory(req[p].id, req[p].user)
     IN IF hit = {}
          THEN /\ req' = [req EXCEPT ![p] = ErrorHandler(Stmt(p), "P2025")]
               /\ UNCHANGED categories
          ELSE LET row == UpdateCategoryData(Val(hit), req[p])
                   cs == (categories \ hit) \cup {row}
               IN IF CategoriesUserIdNameKey(cs)
                    THEN /\ categories' = cs
                         /\ req' = [req EXCEPT ![p] =
                                      [Finish(Stmt(p), 200,
                                              "Category updated successfully")
                                         EXCEPT !.data = {row}]]
                    ELSE /\ req' = [req EXCEPT ![p] =
                                      ErrorHandler(Stmt(p), "P2002")]
                         /\ UNCHANGED categories
  /\ UNCHANGED <<users, expenses, nextId, now, tokens, nreq>>

\* deleteCategory: the ownership check
DeleteCategoryFind(p) ==
  /\ At(p, "cat_delete_find")
  /\ ReadOnly(p, IF FindCategory(req[p].id, req[p].user) = {}
                   THEN Finish(Stmt(p), 404, "Category not found")
                   ELSE Step(Stmt(p), "cat_delete_count"))

\* a guard that lets a category with a single expense through
DeleteBlockedAboveOne(expensesCount) == expensesCount > 1

\* expensesCount > 0
DeleteBlocked(expensesCount) == expensesCount > 0

\* deleteCategory: the count of the expenses using the category
DeleteCategoryCount(p) ==
  /\ At(p, "cat_delete_count")
  /\ LET expensesCount == CountExpensesOf(req[p].id)
     IN ReadOnly(p, IF DeleteBlocked(expensesCount)
                      THEN [Finish(Stmt(p), 400,
                                   "Cannot delete category. It is used by N expenses.")
                              EXCEPT !.n = expensesCount]
                      ELSE Step(Stmt(p), "cat_delete"))

\* expenses_category_id_fkey ... ON DELETE SET NULL: the expenses once the
\* categories in gone are deleted
OnDeleteSetNull(gone) ==
  { IF \E c \in gone : e.categoryId = Some(c.id)
      THEN [e EXCEPT !.categoryId = Null] ELSE e : e \in expenses }

\* deleteCategory: prisma.category.delete({where: {id, userId}})
DeleteCategory(p) ==
  /\ At(p, "cat_delete")
  /\ LET hit == FindCategory(req[p].id, req[p].user)
     IN IF hit = {}
          THEN /\ req' = [req EXCEPT ![p] = ErrorHandler(Stmt(p), "P2025")]
               /\ UNCHANGED <<categories, expenses>>
          ELSE /\ categories' = categories \ hit
               /\ expenses' = OnDeleteSetNull(hit)
               /\ req' = [req EXCEPT ![p] =
                            Finish(Stmt(p), 200, "Category deleted successfully")]
  /\ UNCHANGED <<users, nextId, now, tokens, nreq>>

(* ------------------------- category summary --------------------------- *)
RECURSIVE SumAmounts(_)
\* the sum of the amounts of a set of expense rows
SumAmounts(es) ==
  IF es = {} THEN 0
  ELSE LET e == CHOOSE x \in es : TRUE IN e.amount + SumAmounts(es \ {e})

\* new Date(year, monthNum - 1, 1) and new Date(year, monthNum, 0) as day
\* numbers; day 0 is the 29th of a 31-day month 0 followed by a 31-day month 1
MonthStart(m) == 31 * m - 28
MonthEnd(m) == MonthStart(m + 1) - 1
\* the YYYY-MM of the day d
MonthOf(d) == (d + 28) \div 31

\* a month window that stops before the month's last day
ExpensesInExclusive(c, m) ==
  {e \in expenses : e.categoryId = Some(c.id)
                    /\ e.date >= MonthStart(m) /\ e.date < MonthEnd(m)}

\* category.expenses of the findMany include: date >= startDate, date <= endDate
ExpensesIn(c, m) ==
  {e \in expenses : e.categoryId = Some(c.id)
                    /\ e.date >= MonthStart(m) /\ e.date <= MonthEnd(m)}

\* Math.round(100 * spent / limit), limit > 0
RoundPercent(spent, limit) == (200 * spent + limit) \div (2 * limit)

\* a classification with the green threshold at 30
StatusOfThirty(spent, limit) ==
  IF 100 * spent < 30 * limit THEN "green"
  ELSE IF 100 * spent <= 100 * limit THEN "yellow"
  ELSE "red"

\* status from the unrounded percentage = spent / limit * 100
StatusOf(spent, limit) ==
  IF 100 * spent < 60 * limit THEN "green"
  ELSE IF 100 * spent <= 100 * limit THEN "yellow"
  ELSE "red"

\* one entry of categorySummary; limit ? ... : null and percentage ? ... : null
\* test truthiness, so a limit of 0 and a percentage of 0 count as absent
SummaryEntry(c, m) ==
  LET totalSpent == SumAmounts(ExpensesIn(c, m))
      limit == c.monthlyLimit
      hasPct == Truthy(limit)
  IN [id |-> c.id, name |-> c.name, monthlyLimit |-> limit,
      totalSpent |-> totalSpent,
      percentage |-> IF hasPct /\ totalSpent # 0
                       THEN Some(RoundPercent(totalSpent, Val(limit)))
                       ELSE Null,
      status |-> IF hasPct THEN StatusOf(totalSpent, Val(limit)) ELSE "null"]

\* the data of getCategorySummary for user u and month m
CategorySummary(u, m) == {SummaryEntry(c, m) : c \in {x \in categories : x.userId = u}}

\* getCategorySummary: prisma.category.findMany with the month's expenses
GetCategorySummary(p) ==
  /\ At(p, "cat_summary")
  /\ ReadOnly(p, [Finish(Stmt(p), 200, "") EXCEPT
                    !.data = CategorySummary(req[p].user, Val(req[p].month))])

(* ----------------------------- expenses ------------------------------- *)
\* a lookup by id alone
FindExpenseAnyOwner(id, userId) == {e \in expenses : e.id = id}

\* prisma.expense.findUnique({where: {id, userId}})
FindExpense(id, userId) == {e \in expenses : e.id = id /\ e.userId = userId}

\* an expenses table without the foreign key on category_id
NoCategoryIdFkey(categoryId) == TRUE

\* expenses_category_id_fkey: the referenced category row exists
CategoryIdFkey(categoryId) ==
  categoryId = Null \/ \E c \in categories : c.id = Val(categoryId)

\* getExpenseById
GetExpenseById(p) ==
  /\ At(p, "exp_get")
  /\ LET hit == FindExpense(req[p].id, req[p].user)
     IN ReadOnly(p, IF hit = {} THEN Finish(Stmt(p), 404, "Expense not found")
                    ELSE [Finish(Stmt(p), 200, "") EXCEPT !.data = hit])

\* createExpense: the category must exist and belong to the caller
CreateExpenseCategory(p) ==
  /\ At(p, "exp_create_cat")
  /\ ReadOnly(p, IF FindCategory(Val(req[p].categoryId), req[p].user) = {}
                   THEN Finish(Stmt(p), 400, "Invalid category")
                   ELSE Step(Stmt(p), "exp_create"))

\* the row createExpense hands to prisma.expense.create:
\* amount.toString() into DECIMAL(10,2), new Date(date) into DATE
CreateExpenseData(r) ==
  [id |-> nextId, userId |-> r.user, categoryId |-> r.categoryId,
   amount |-> ToDecimal2(Val(r.amount)), date |-> Val(r.date).day]

\* createExpense: prisma.expense.create
CreateExpense(p) ==
  /\ At(p, "exp_create")
  /\ LET row == CreateExpenseData(req[p])
     IN IF CategoryIdFkey(row.categoryId)
          THEN /\ expenses' = expenses \cup {row}
               /\ nextId' = nextId + 1
               /\ req' = [req EXCEPT ![p] =
                            [Finish(Stmt(p), 201, "Expense created successfully")
                               EXCEPT !.data = {row}]]
          ELSE /\ req' = [req EXCEPT ![p] = ErrorHandler(Stmt(p), "P2003")]
               /\ UNCHANGED <<expenses, nextId>>
  /\ UNCHANGED <<users, categories, now, tokens, nreq>>

\* updateExpense: the ownership check
UpdateExpenseFind(p) ==
  /\ At(p, "exp_update_find")
  /\ ReadOnly(p, IF FindExpense(req[p].id, req[p].user) = {}
                   THEN Finish(Stmt(p), 404, "Expense not found")
                 ELSE IF req[p].categoryId # Null
                   THEN Step(Stmt(p), "exp_update_cat")
                 ELSE Step(Stmt(p), "exp_update"))

\* updateExpense: a changed category must exist and belong to the caller
UpdateExpenseCategory(p) ==
  /\ At(p, "exp_update_cat")
  /\ ReadOnly(p, IF FindCategory(Val(req[p].categoryId), req[p].user) = {}
                   THEN Finish(Stmt(p), 400, "Invalid category")
                   ELSE Step(Stmt(p), "exp_update"))

\* the row after updateExpense's updateData
UpdateExpenseData(e, r) ==
  [e EXCEPT !.amount = IF r.amount # Null THEN ToDecimal2(Val(r.amount)) ELSE @,
            !.categoryId = IF r.categoryId # Null THEN r.categoryId ELSE @,
            !.date = IF r.date # Null THEN Val(r.date).day ELSE @]

\* updateExpense: prisma.expense.update({where: {id, userId}})
UpdateExpense(p) ==
  /\ At(p, "exp_update")
  /\ LET hit == FindExpense(req[p].id, req[p].user)
     IN IF hit = {}
          THEN /\ req' = [req EXCEPT ![p] = ErrorHandler(Stmt(p), "P2025")]
               /\ UNCHANGED expenses
          ELSE LET row == UpdateExpenseData(Val(hit), req[p])
               IN IF CategoryIdFkey(row.categoryId)
                    THEN /\ expenses' = (expenses \ hit) \cup {row}
                         /\ req' = [req EXCEPT ![p] =
                                      [Finish(Stmt(p), 200,
                                              "Expense updated successfully")
                                         EXCEPT !.data = {row}]]
                    ELSE /\ req' = [req EXCEPT ![p] =
                                      ErrorHandler(Stmt(p), "P2003")]
                         /\ UNCHANGED expenses
  /\ UNCHANGED <<users, categories, nextId, now, tokens, nreq>>

\* deleteExpense: the ownership check
DeleteExpenseFind(p) ==
  /\ At(p, "exp_delete_find")
  /\ ReadOnly(p, IF FindExpense(req[p].id, req[p].user) = {}
                   THEN Finish(Stmt(p), 404, "Expense not found")
                   ELSE Step(Stmt(p), "exp_delete"))

\* deleteExpense: prisma.expense.delete({where: {id, userId}})
DeleteExpense(p) ==
  /\ At(p, "exp_delete")
  /\ LET hit == FindExpense(req[p].id, req[p].user)
     IN IF hit = {}
          THEN /\ req' = [req EXCEPT ![p] = ErrorHandler(Stmt(p), "P2025")]
               /\ UNCHANGED expenses
          ELSE /\ expenses' = expenses \ hit
               /\ req' = [req EXCEPT ![p] =
                            Finish(Stmt(p), 200, "Expense deleted successfully")]
  /\ UNCHANGED <<users, categories, nextId, now, tokens, nreq>>

(* ---------------------------- pagination ------------------------------ *)
\* parseInt(page as string, 10) and parseInt(limit as string, 10), with the
\* defaults "1" and "20" of the destructuring.  r.page and r.size hold the
\* integer whose numeral was sent, r.junk names the parameters sent as text
\* that starts with no numeral; the result is Null for NaN
PageNum(r) ==
  IF "page" \in r.junk THEN Null ELSE IF r.page = Null THEN Some(1) ELSE r.page
LimitNum(r) ==
  IF "limit" \in r.junk THEN Null ELSE IF r.size = Null THEN Some(20) ELSE r.size

\* skip = (pageNum - 1) * limitNum
Skip(pageNum, limitNum) == (pageNum - 1) * limitNum

\* Math.floor in place of Math.ceil
TotalPagesFloor(total, limitNum) == total \div limitNum

\* Math.ceil(total / limitNum), limitNum > 0
TotalPages(total, limitNum) == (total + limitNum - 1) \div limitNum

\* the filter of getAllExpenses: the caller's rows, of one category if asked
Matching(r) ==
  {e \in expenses : e.userId = r.user
                    /\ (r.categoryId # Null => e.categoryId = r.categoryId)}

\* e comes before f under orderBy {date: "desc"}; rows of one date are told
\* apart by id
Before(e, f) == e.date > f.date \/ (e.date = f.date /\ e.id < f.id)

RECURSIVE OrderBy(_)
\* the rows es in the order of the orderBy
OrderBy(es) ==
  IF es = {} THEN <<>>
  ELSE LET e == CHOOSE x \in es : \A y \in es \ {x} : Before(x, y)
       IN <<e>> \o OrderBy(es \ {e})

\* Math.ceil(total / limitNum) as JSON carries it: Infinity and NaN (limitNum
\* = 0) are written as null, a negative limitNum gives a number <= 0
MathCeil(total, limitNum) ==
  IF limitNum = 0 THEN Null
  ELSE IF limitNum > 0 THEN Some(TotalPages(total, limitNum))
  ELSE Some(-(total \div (-limitNum)))

\* findMany({skip, take}) on the ordered rows; a negative take counts from
\* the end of the list
SkipTake(rows, skip, take) ==
  IF take >= 0
    THEN SubSeq(rows, skip + 1,
                IF skip + take < Len(rows) THEN skip + take ELSE Len(rows))
    ELSE SubSeq(rows,
                IF Len(rows) - skip + take + 1 > 1
                  THEN Len(rows) - skip + take + 1 ELSE 1,
                Len(rows) - skip)

\* getAllExpenses: prisma.expense.count({where: filter})
GetAllExpensesCount(p) ==
  /\ At(p, "exp_count")
  /\ ReadOnly(p, [Step(Stmt(p), "exp_list") EXCEPT
                    !.total = Cardinality(Matching(req[p]))])

\* getAllExpenses: prisma.expense.findMany and the response; Prisma refuses
\* a skip or take that is NaN and a negative skip before it queries
GetAllExpenses(p) ==
  /\ At(p, "exp_list")
  /\ LET pageNum == PageNum(req[p])
         limitNum == LimitNum(req[p])
         skip == IF pageNum = Null \/ limitNum = Null THEN Null
                 ELSE Some(Skip(Val(pageNum), Val(limitNum)))
         r == [Stmt(p) EXCEPT !.skip = skip, !.take = limitNum]
     IN ReadOnly(p, IF skip = Null \/ Val(skip) < 0
                      THEN ErrorHandler(r, "PrismaClientValidationError")
                      ELSE [Finish(r, 200, "") EXCEPT
                              !.rows = SkipTake(OrderBy(Matching(req[p])),
                                                Val(skip), Val(limitNum)),
                              !.totalPages = MathCeil(req[p].total, Val(limitNum))])

(* -------------------------- expense summary --------------------------- *)
\* the length of the window behind today: setDate(getDate() - 7),
\* setFullYear(getFullYear() - 1), setDate(getDate() - 30)
PeriodDays(period) ==
  IF period = "week" THEN 7 ELSE IF period = "year" THEN 365 ELSE 30

\* WHERE e."userId" = u AND e.date >= startDate AND e.date <= today; startDate
\* keeps today's time of day, so the date startDate falls on lies before it
InWindow(u, period, today) ==
  {e \in expenses : e.userId = u /\ e.date > today - PeriodDays(period)
                    /\ e.date <= today}

\* expensesByCategory: JOIN "Category" c ON e."categoryId" = c.id ... GROUP BY c.id
ExpensesByCategory(u, period, today) ==
  LET es == InWindow(u, period, today)
      cs == {c \in categories : \E e \in es : e.categoryId = Some(c.id)}
  IN { [id |-> c.id, name |-> c.name,
        value |-> SumAmounts({e \in es : e.categoryId = Some(c.id)})] : c \in cs }

RECURSIVE SumValues(_)
\* totalExpenses = categoryData.reduce((sum, item) => sum + item.value, 0)
SumValues(items) ==
  IF items = {} THEN 0
  ELSE LET i == CHOOSE x \in items : TRUE IN i.value + SumValues(items \ {i})

\* TO_CHAR(e.date, 'YYYY-MM-DD') for the daily views and TO_CHAR(e.date,
\* 'YYYY-MM') for the year view (MonthStart's calendar)
Bucket(period, date) == IF period = "year" THEN (date + 28) \div 31 ELSE date

\* timeSeriesData: GROUP BY the bucket of e.date
TimeSeries(u, period, today) ==
  LET es == InWindow(u, period, today)
  IN { [period |-> b,
        amount |-> SumAmounts({e \in es : Bucket(period, e.date) = b})]
       : b \in {Bucket(period, e.date) : e \in es} }

RECURSIVE SumBuckets(_)
\* the sum of the amounts of the time-series buckets
SumBuckets(items) ==
  IF items = {} THEN 0
  ELSE LET i == CHOOSE x \in items : TRUE IN i.amount + SumBuckets(items \ {i})

\* ORDER BY "totalAmount" DESC: the orders PostgreSQL may return the groups
\* in; groups with equal totals come in either order
OrderByTotalDesc(items) ==
  {s \in [1..Cardinality(items) -> items] :
     /\ \A x \in items : \E i \in DOMAIN s : s[i] = x
     /\ \A i, j \in DOMAIN s : i < j => s[i].value >= s[j].value}

\* Math.round((item.value / totalExpenses) * 100); 0 / 0 is NaN, which
\* JSON.stringify writes as null
PercentageOfTotal(value, totalExpenses) ==
  IF totalExpenses = 0 THEN Null ELSE Some(RoundPercent(value, totalExpenses))

\* categoryDataWithPercentage
WithPercentage(s, totalExpenses) ==
  [i \in DOMAIN s |->
     [id |-> s[i].id, name |-> s[i].name, value |-> s[i].value,
      percentage |-> PercentageOfTotal(s[i].value, totalExpenses)]]

\* ORDER BY "period": the buckets by their label, which sorts as the dates do
OrderByPeriod(items) ==
  CHOOSE s \in [1..Cardinality(items) -> items] :
    /\ \A x \in items : \E i \in DOMAIN s : s[i] = x
    /\ \A i, j \in DOMAIN s : i < j => s[i].period < s[j].period

\* getExpensesSummary: the query grouped by category, then totalExpenses
\* and the percentages
GetExpensesSummaryByCategory(p) ==
  /\ At(p, "exp_sum_cat")
  /\ LET items == ExpensesByCategory(req[p].user, req[p].period, req[p].today)
     IN \E s \in OrderByTotalDesc(items) :
          ReadOnly(p, [Step(Stmt(p), "exp_sum_ts") EXCEPT
                         !.data = items, !.total = SumValues(items),
                         !.breakdown = WithPercentage(s, SumValues(items))])

\* getExpensesSummary: the query grouped by time bucket, then the response
GetExpensesSummary(p) ==
  /\ At(p, "exp_sum_ts")
  /\ LET buckets == TimeSeries(req[p].user, req[p].period, req[p].today)
     IN ReadOnly(p, [Finish(Stmt(p), 200, "") EXCEPT
                       !.series = buckets, !.timeline = OrderByPeriod(buckets)])

(* ------------------------------ clients ------------------------------- *)
RegisterReq(e, nl) ==
  [Idle EXCEPT !.op = "register", !.email = e, !.password = "secret",
               !.nameLen = nl]
LoginReq(e, pw) == [Idle EXCEPT !.op = "login", !.email = e, !.password = pw]
Call(op, hdr, id) == [Idle EXCEPT !.op = op, !.hdr = hdr, !.id = id]
CategoryReq(op, hdr, id, name, limit) ==
  [Call(op, hdr, id) EXCEPT !.name = name, !.limit = limit]
ExpenseReq(op, hdr, id, categoryId, amount, date) ==
  [Call(op, hdr, id) EXCEPT !.categoryId = categoryId, !.amount = amount,
                            !.date = date]
SummaryReq(hdr, month) == [Call("getCategorySummary", hdr, 0) EXCEPT !.month = month]
ListReq(hdr, page, size) ==
  [Call("getAllExpenses", hdr, 0) EXCEPT !.page = page, !.size = size]
PeriodReq(hdr, period) ==
  [Call("getExpensesSummary", hdr, 0) EXCEPT !.period = period]

Day(d) == [ok |-> TRUE, day |-> d]
BadDate == [ok |-> FALSE, day |-> 0]

\* the Authorization headers clients send: a token as issued, a token with
\* its payload or signature altered, or none
Issued == {Some(t) : t \in tokens}
Tampered == {Some([t EXCEPT !.sig = FALSE]) : t \in tokens}
Headers == Issued \cup Tampered \cup {Null}

\* the ids clients name: the rows with the names the clients work with
Names == {"Food", "Transport", "Travel"}
CategoryIds == {c.id : c \in {x \in categories : x.name \in Names}}
ExpenseIds == {e.id : e \in expenses}

(* --------------------- the steps of the controllers ------------------- *)
Serve(p) ==
  \/ AuthUser(p)
  \/ RegisterFind(p)
  \/ RegisterCreate(p)
  \/ CreateCategoryFind(p)
  \/ CreateCategory(p)
  \/ UpdateCategoryFind(p)
  \/ UpdateCategoryDup(p)
  \/ UpdateCategory(p)
  \/ DeleteCategoryFind(p)
  \/ DeleteCategoryCount(p)
  \/ DeleteCategory(p)
  \/ CreateExpenseCategory(p)
  \/ CreateExpense(p)
  \/ UpdateExpenseFind(p)
  \/ UpdateExpenseCategory(p)
  \/ UpdateExpense(p)
  \/ DeleteExpenseFind(p)
  \/ DeleteExpense(p)
  \/ Close(p)

(* Concurrent clients with valid tokens working on categories and expenses *)
Next ==
  \/ \E p \in Procs, e \in Emails : Arrive(p, RegisterReq(e, 2))
  \/ \E p \in Procs, h \in Issued, name \in {"Food", "Travel"},
        limit \in {Null, Some(0), Some(300000)} :
       Arrive(p, CategoryReq("createCategory", h, 0, Some(name), limit))
  \/ \E p \in Procs, h \in Issued, id \in CategoryIds,
        name \in {Null, Some("Travel")}, limit \in {Null, Some(0)} :
       Arrive(p, CategoryReq("updateCategory", h, id, name, limit))
  \/ \E p \in Procs, h \in Issued, id \in CategoryIds :
       Arrive(p, Call("deleteCategory", h, id))
  \/ \E p \in Procs, h \in Issued, c \in CategoryIds, a \in {4, 120000},
        d \in {-10, 0} :
       Arrive(p, ExpenseReq("createExpense", h, 0, Some(c), Some(a), Some(Day(d))))
  \/ \E p \in Procs, h \in Issued, id \in ExpenseIds, c \in CategoryIds :
       Arrive(p, ExpenseReq("updateExpense", h, id, Some(c), Null, Null))
  \/ \E p \in Procs, h \in Issued, id \in ExpenseIds :
       Arrive(p, ExpenseReq("updateExpense", h, id, Null, Some(4), Null))
  \/ \E p \in Procs, h \in Issued, id \in ExpenseIds :
       Arrive(p, Call("deleteExpense", h, id))
  \/ \E p \in Procs, h \in Issued, c \in CategoryIds :
       \/ Arrive(p, ExpenseReq("createExpense", h, 0, Some(c), Some(0), Some(Day(0))))
       \/ Arrive(p, ExpenseReq("createExpense", h, 0, Some(c), Some(120000), Some(BadDate)))
  \/ \E p \in Procs : Serve(p)

Spec == Init /\ [][Next]_vars

(* One client at a time on every route, with every kind of Authorization   *)
(* header, while time passes                                               *)
Reads(p) ==
  \/ GetCurrentUser(p)
  \/ LoginFind(p)
  \/ GetAllCategories(p)
  \/ GetCategoryById(p)
  \/ GetCategorySummary(p)
  \/ GetExpenseById(p)
  \/ GetAllExpensesCount(p)
  \/ GetAllExpenses(p)
  \/ GetExpensesSummaryByCategory(p)
  \/ GetExpensesSummary(p)

AnyCategoryId == IF CategoryIds = {} THEN {0} ELSE {Val(CategoryIds)}
AnyExpenseId == IF ExpenseIds = {} THEN {0} ELSE {Val(ExpenseIds)}

\* a request to each route behind authenticate
Routes(h) ==
  { Call("getCurrentUser", h, 0),
    Call("getAllCategories", h, 0),
    SummaryReq(h, Some(0)),
    PeriodReq(h, "week"),
    ListReq(h, Null, Null) }
  \cup { Call(op, h, id) : op \in {"getCategoryById", "deleteCategory"},
                           id \in AnyCategoryId }
  \cup { CategoryReq("createCategory", h, 0, Some("Travel"), Some(300000)) }
  \cup { CategoryReq("updateCategory", h, id, Some("Groceries"), Null) :
           id \in AnyCategoryId }
  \cup { Call(op, h, id) : op \in {"getExpenseById", "deleteExpense"},
                           id \in AnyExpenseId }
  \cup { ExpenseReq("createExpense", h, 0, Some(c), Some(120000), Some(Day(now))) :
           c \in AnyCategoryId }
  \cup { ExpenseReq("updateExpense", h, id, Some(c), Some(50000), Null) :
           id \in AnyExpenseId, c \in AnyCategoryId }

\* requests whose body the route's schema refuses
InvalidBodies(h) ==
  { CategoryReq("createCategory", h, 0, Some(""), Null),
    CategoryReq("createCategory", h, 0, Some("Travel"), Some(-1000)) }
  \cup { ExpenseReq("createExpense", h, 0, Some(c), a, d) :
           c \in AnyCategoryId,
           a \in {Some(0), Some(-5000), Some(120000)},
           d \in {Some(Day(now)), Some(BadDate)} }
  \cup { ExpenseReq("updateExpense", h, id, Null, a, d) :
           id \in AnyExpenseId,
           a \in {Some(0), Some(50000)},
           d \in {Null, Some(BadDate)} }

InvalidSignups ==
  { RegisterReq("a@x.io", 1),
    RegisterReq("nobody", 2),
    [RegisterReq("a@x.io", 2) EXCEPT !.password = "short"] }

NextAuth ==
  \/ Tick
  \/ DeleteUserRow
  \/ \E e \in {"a@x.io"} : Arrive(1, RegisterReq(e, 2))
  \/ \E e \in {"a@x.io"}, pw \in {"secret", "wrong!"} : Arrive(1, LoginReq(e, pw))
  \/ \E h \in Headers : \E r \in Routes(h) : Arrive(1, r)
  \/ \E h \in Headers, op \in {"health", "index"} : Arrive(1, Call(op, h, 0))
  \/ \E r \in InvalidSignups : Arrive(1, r)
  \/ \E h \in Issued : \E r \in InvalidBodies(h) : Arrive(1, r)
  \/ Serve(1)
  \/ Reads(1)

SpecAuth == Init /\ [][NextAuth]_vars

(* One client going through signup, login, a new category, an expense in   *)
(* it dated today and the summary of the current month                     *)
FlowSteps == 5

NextFlow ==
  \/ nreq = 0 /\ Tick
  \/ nreq = 0 /\ \E e \in Emails : ArriveWithin(1, RegisterReq(e, 2), FlowSteps)
  \/ nreq = 1 /\ \E u \in users :
                    ArriveWithin(1, LoginReq(u.email, u.password), FlowSteps)
  \/ nreq = 2 /\ \E h \in Issued, limit \in {Some(300000), Some(200000)} :
                    ArriveWithin(1, CategoryReq("createCategory", h, 0,
                                                Some("Travel"), limit), FlowSteps)
  \/ nreq = 3 /\ \E h \in Issued, c \in {x \in categories : x.name = "Travel"},
                     a \in {120000, 50000} :
                    ArriveWithin(1, ExpenseReq("createExpense", h, 0, Some(c.id),
                                               Some(a), Some(Day(now))), FlowSteps)
  \/ nreq = 4 /\ \E h \in Issued :
                    ArriveWithin(1, SummaryReq(h, Some(MonthOf(now))), FlowSteps)
  \/ AuthUser(1)
  \/ RegisterFind(1)
  \/ RegisterCreate(1)
  \/ LoginFind(1)
  \/ CreateCategoryFind(1)
  \/ CreateCategory(1)
  \/ CreateExpenseCategory(1)
  \/ CreateExpense(1)
  \/ GetCategorySummary(1)
  \/ Close(1)

SpecFlow == Init /\ [][NextFlow]_vars

(* Two registered users, each with an expense, working on their own and    *)
(* on each other's ids                                                     *)

\* the rows register creates for a user with id uid
DefaultsOf(uid) ==
  { [id |-> uid + i, userId |-> uid, name |-> DefaultOrder[i],
     monthlyLimit |-> Some(100 * (CHOOSE d \in DefaultCategories :
                                    d.name = DefaultOrder[i]).monthlyLimit)]
    : i \in 1..Len(DefaultOrder) }

\* after two signups and one createExpense by each user in its Food category
InitCross ==
  /\ users = { [id |-> 1, email |-> "a@x.io", password |-> "secret"],
               [id |-> 7, email |-> "b@x.io", password |-> "secret"] }
  /\ categories = DefaultsOf(1) \cup DefaultsOf(7)
  /\ expenses = { [id |-> 13, userId |-> 1, categoryId |-> Some(2),
                   amount |-> 12000, date |-> 0],
                  [id |-> 14, userId |-> 7, categoryId |-> Some(8),
                   amount |-> 5000, date |-> 0] }
  /\ nextId = 15
  /\ now = 0
  /\ tokens = { [userId |-> u, iat |-> 0, exp |-> TokenLifetimeDays, sig |-> TRUE]
                : u \in {1, 7} }
  /\ req = [p \in Procs |-> Idle]
  /\ nreq = 0

\* categoryId of a body: a category of either user, a uuid no row has (99),
\* a string that is not a uuid (0)
CategoryIdInputs == CategoryIds \cup {99, 0}

\* the requests of a client holding h, on its own ids and on the other user's
CrossRequests(h) ==
  { Call(op, h, id) : op \in {"getCategoryById", "deleteCategory"},
                      id \in CategoryIds }
  \cup { CategoryReq("updateCategory", h, id, Some("Groceries"), Some(0)) :
           id \in CategoryIds }
  \cup { Call(op, h, id) : op \in {"getExpenseById", "deleteExpense"},
                           id \in ExpenseIds }
  \cup { ExpenseReq("updateExpense", h, id, c, Some(50000), Null) :
           id \in ExpenseIds,
           c \in {Null} \cup {Some(x) : x \in CategoryIdInputs} }
  \cup { ExpenseReq("createExpense", h, 0, Some(c), Some(120000), Some(Day(0))) :
           c \in CategoryIdInputs }
  \cup { Call("getAllCategories", h, 0), SummaryReq(h, Some(0)),
         PeriodReq(h, "week"), ListReq(h, Some(1), Some(10)) }
  \cup { [ListReq(h, Some(1), Some(10)) EXCEPT !.categoryId = Some(c)] :
           c \in CategoryIds }

NextCross ==
  \/ \E h \in Issued : \E r \in CrossRequests(h) : Arrive(1, r)
  \/ AuthUser(1)
  \/ GetAllCategories(1)
  \/ GetCategoryById(1)
  \/ UpdateCategoryFind(1)
  \/ UpdateCategoryDup(1)
  \/ UpdateCategory(1)
  \/ DeleteCategoryFind(1)
  \/ DeleteCategoryCount(1)
  \/ DeleteCategory(1)
  \/ GetCategorySummary(1)
  \/ GetExpenseById(1)
  \/ CreateExpenseCategory(1)
  \/ CreateExpense(1)
  \/ UpdateExpenseFind(1)
  \/ UpdateExpenseCategory(1)
  \/ UpdateExpense(1)
  \/ DeleteExpenseFind(1)
  \/ DeleteExpense(1)
  \/ GetAllExpensesCount(1)
  \/ GetAllExpenses(1)
  \/ GetExpensesSummaryByCategory(1)
  \/ GetExpensesSummary(1)
  \/ Close(1)

SpecCross == InitCross /\ [][NextCross]_vars

(* PUT /expenses/:id and PUT /categories/:id with every choice of fields   *)
\* the bodies of the patches: each field absent or present; amounts and
\* limits in whole cents (50000 = 50.00) and with a third decimal (50004)
PatchRequests(h) ==
  { ExpenseReq("updateExpense", h, id, c, a, d) :
      id \in ExpenseIds,
      c \in {Null} \cup {Some(x) : x \in CategoryIds},
      a \in {Null, Some(50000), Some(50004)},
      d \in {Null, Some(Day(3))} }
  \cup { CategoryReq("updateCategory", h, id, n, l) :
           id \in CategoryIds,
           n \in {Null, Some("Groceries")},
           l \in {Null, Some(0), Some(250000), Some(250004)} }

NextPatch ==
  \/ \E h \in {x \in Issued : Val(x).userId = 1} :
       \E r \in PatchRequests(h) : Arrive(1, r)
  \/ AuthUser(1)
  \/ UpdateCategoryFind(1)
  \/ UpdateCategoryDup(1)
  \/ UpdateCategory(1)
  \/ UpdateExpenseFind(1)
  \/ UpdateExpenseCategory(1)
  \/ UpdateExpense(1)
  \/ Close(1)

SpecPatch == InitCross /\ [][NextPatch]_vars

(* Signups with the server process exiting at any point                    *)
NextCrash ==
  \/ \E p \in Procs : \E e \in Emails : Arrive(p, RegisterReq(e, 5))
  \/ \E p \in Procs : \/ RegisterFind(p)
                       \/ RegisterCreate(p)
                       \/ Close(p)
  \/ Crash
  \/ Restart

SpecCrash == Init /\ [][NextCrash]_vars

(* Concurrent DELETE /expenses/:id by the two users                        *)
\* req.params.id: the two expenses of InitCross and an id no row ever had
DeleteTargets == {13, 14, 99}

NextDelete ==
  \/ \E p \in Procs : \E h \in Issued : \E id \in DeleteTargets :
       Arrive(p, Call("deleteExpense", h, id))
  \/ \E p \in Procs : \/ AuthUser(p)
                       \/ DeleteExpenseFind(p)
                       \/ DeleteExpense(p)
                       \/ Close(p)

SpecDelete == InitCross /\ [][NextDelete]_vars

(* GET /categories/summary over expenses dated around the ends of a month *)
\* the last day before month 0, its first day, its last day, the day after
EdgeDays == {MonthStart(0) - 1, MonthStart(0), MonthEnd(0), MonthEnd(0) + 1}

\* two users with their default categories; two expenses of user 1, each in
\* Food, in Transport or uncategorized, and one of user 7, on any edge day
InitMonth ==
  \E c1, c2 \in {Some(2), Some(3), Null} : \E d1, d2, d3 \in EdgeDays :
    /\ users = { [id |-> 1, email |-> "a@x.io", password |-> "secret"],
                 [id |-> 7, email |-> "b@x.io", password |-> "secret"] }
    /\ categories = DefaultsOf(1) \cup DefaultsOf(7)
    /\ expenses = { [id |-> 13, userId |-> 1, categoryId |-> c1,
                     amount |-> 1000, date |-> d1],
                    [id |-> 14, userId |-> 1, categoryId |-> c2,
                     amount |-> 2500, date |-> d2],
                    [id |-> 15, userId |-> 7, categoryId |-> Some(8),
                     amount |-> 4000, date |-> d3] }
    /\ nextId = 16
    /\ now = 0
    /\ tokens = { [userId |-> u, iat |-> 0, exp |-> TokenLifetimeDays,
                   sig |-> TRUE] : u \in {1, 7} }
    /\ req = [p \in Procs |-> Idle]
    /\ nreq = 0

NextMonth ==
  \/ \E h \in Issued, m \in {-1, 0, 1} : Arrive(1, SummaryReq(h, Some(m)))
  \/ AuthUser(1)
  \/ GetCategorySummary(1)
  \/ Close(1)

SpecMonth == InitMonth /\ [][NextMonth]_vars

(* GET /expenses/summary over expenses spread over the last weeks        *)
\* today, within the week, a week ago, within the 30 days, 30 days ago,
\* within the year
SpreadDays == {0, -3, -7, -20, -30, -40}

\* a user with the default categories and three expenses in Food or
\* Transport on those days; the first may be one stored as 0.00
InitTrend ==
  \E c1, c2 \in {Some(2), Some(3)} : \E d1, d2, d3 \in SpreadDays :
    \E a1 \in {0, 5700} :
      /\ users = {[id |-> 1, email |-> "a@x.io", password |-> "secret"]}
      /\ categories = DefaultsOf(1)
      /\ expenses = { [id |-> 7, userId |-> 1, categoryId |-> c1,
                       amount |-> a1, date |-> d1],
                      [id |-> 8, userId |-> 1, categoryId |-> c2,
                       amount |-> 14300, date |-> d2],
                      [id |-> 9, userId |-> 1, categoryId |-> Some(3),
                       amount |-> 5700, date |-> d3] }
      /\ nextId = 10
      /\ now = 0
      /\ tokens = {[userId |-> 1, iat |-> 0, exp |-> TokenLifetimeDays,
                    sig |-> TRUE]}
      /\ req = [p \in Procs |-> Idle]
      /\ nreq = 0

\* req.query.period: the three views and a value that names none
NextTrend ==
  \/ \E h \in Issued, period \in {"week", "month", "year", "quarter"} :
       ArriveWithin(1, PeriodReq(h, period), 1)
  \/ AuthUser(1)
  \/ GetExpensesSummaryByCategory(1)
  \/ GetExpensesSummary(1)
  \/ Close(1)

SpecTrend == InitTrend /\ [][NextTrend]_vars

(* Requests that end in errorHandler, under each setting of NODE_ENV      *)
\* process.env.NODE_ENV: not set (as in docker-compose.yml), production,
\* development
NodeEnvs == {Null, Some("production"), Some("development")}

NextError ==
  \/ \E e \in Emails, nl \in {1, 5}, env \in NodeEnvs :
       Arrive(1, [RegisterReq(e, nl) EXCEPT !.nodeEnv = env])
  \/ \E h \in Issued, name \in {Some(""), Some("Travel")}, env \in NodeEnvs :
       Arrive(1, [CategoryReq("createCategory", h, 0, name, Null)
                    EXCEPT !.nodeEnv = env])
  \/ \E h \in Issued, env \in NodeEnvs :
       Arrive(1, [Call("deleteCategory", h, 99) EXCEPT !.nodeEnv = env])
  \/ AuthUser(1)
  \/ RegisterFind(1)
  \/ RegisterCreate(1)
  \/ CreateCategoryFind(1)
  \/ CreateCategory(1)
  \/ DeleteCategoryFind(1)
  \/ Close(1)

SpecError == Init /\ [][NextError]_vars

(* Paging through a user's expenses                                        *)
MaxTotal == 26

\* a registered user with T expenses in the first default category
InitPage ==
  \E T \in 0..MaxTotal :
    /\ users = {[id |-> 1, email |-> "a@x.io", password |-> "secret"]}
    /\ categories =
         { [id |-> 1 + i, userId |-> 1, name |-> DefaultOrder[i],
            monthlyLimit |-> Some(100 * (CHOOSE d \in DefaultCategories :
                                           d.name = DefaultOrder[i]).monthlyLimit)]
           : i \in 1..Len(DefaultOrder) }
    /\ expenses = { [id |-> 6 + k, userId |-> 1, categoryId |-> Some(2),
                     amount |-> 100, date |-> 0] : k \in 1..T }
    /\ nextId = 7 + T
    /\ now = 0
    /\ tokens = {[userId |-> 1, iat |-> 0, exp |-> TokenLifetimeDays, sig |-> TRUE]}
    /\ req = [p \in Procs |-> Idle]
    /\ nreq = 0

\* ?page=...&limit=... sent as text that is no numeral ("abc")
JunkReq(r, names) == [r EXCEPT !.junk = names]

NextPage ==
  \/ \E h \in Issued, page \in {Null, Some(1), Some(2), Some(3), Some(4)},
        size \in {Null, Some(1), Some(10)} : Arrive(1, ListReq(h, page, size))
  \/ \E h \in Issued, page \in {Some(0), Some(-1), Some(2)},
        size \in {Some(0), Some(-5), Some(10)} :
       Arrive(1, ListReq(h, page, size))
  \/ \E h \in Issued, names \in {{"page"}, {"limit"}, {"page", "limit"}} :
       Arrive(1, JunkReq(ListReq(h, Null, Null), names))
  \/ AuthUser(1)
  \/ GetAllExpensesCount(1)
  \/ GetAllExpenses(1)
  \/ Close(1)

SpecPage == InitPage /\ [][NextPage]_vars

(* ============================ properties ============================== *)

(* C1: a register call whose email is that of an existing user - two       *)
(* signups racing on one email included - is answered 400 'User with this  *)
(* email already exists' and leaves users and categories unchanged.        *)
(* Stated on the statement that ends such a call.                          *)
C1_ExistingEmailConflict ==
  [][\A p \in Procs :
       (At(p, "reg_create") /\ req'[p].pc = "done"
          /\ \E u \in users : u.email = req[p].email)
       => /\ req'[p].status = 400
          /\ req'[p].msg = "User with this email already exists"
          /\ users' = users
          /\ categories' = categories]_vars

\* a signup that lost the race on its email has been answered
C1_RaceLost ==
  \E p \in Procs : /\ req[p].op = "register" /\ req[p].pc = "done"
                   /\ req[p].sends = 1 /\ req[p].status # 201
                   /\ req[p].stmts = 2

(* C2: right after a successful register call the new user owns exactly    *)
(* the five categories Food, Transport, Rent, Utilities, Entertainment,    *)
(* each with a monthly limit, and owns no expense.                         *)
C2_FiveDefaultCategories ==
  [][\A p \in Procs :
       (At(p, "reg_create") /\ req'[p].pc = "done" /\ req'[p].status = 201)
       => LET u == req'[p].user
              own == {c \in categories' : c.userId = u}
          IN /\ \E x \in users' \ users : x.id = u /\ x.email = req[p].email
             /\ Cardinality(own) = 5
             /\ {c.name : c \in own} =
                  {"Food", "Transport", "Rent", "Utilities", "Entertainment"}
             /\ \A c \in own : c.monthlyLimit # Null
             /\ {e \in expenses' : e.userId = u} = {}]_vars

\* a register call has succeeded and its user has categories
C2_Registered ==
  \E p \in Procs : /\ req[p].op = "register" /\ req[p].pc = "done"
                   /\ req[p].status = 201
                   /\ \E c \in categories : c.userId = req[p].user

(* C3: under every interleaving of register, createCategory,               *)
(* updateCategory and deleteCategory no user owns two categories of one    *)
(* name, and a createCategory naming a category the caller already owns    *)
(* fails and adds no category.                                             *)
C3_UniqueCategoryNames ==
  /\ [](\A c1 \in categories, c2 \in categories :
          (c1.userId = c2.userId /\ c1.name = c2.name) => c1 = c2)
  /\ [][\A p \in Procs :
          (/\ req[p].op = "createCategory"
           /\ req[p].pc \in {"cat_create_find", "cat_create"}
           /\ req'[p] # req[p]
           /\ \E c \in categories : c.userId = req[p].user
                                    /\ c.name = Val(req[p].name))
          => /\ req'[p].pc = "done"
             /\ req'[p].status >= 400
             /\ categories' = categories]_vars

\* a createCategory passed its name check and was then stopped by the index
C3_DuplicateStoppedByIndex ==
  \E p \in Procs : /\ req[p].op = "createCategory" /\ req[p].pc = "done"
                   /\ req[p].msg = "P2002"
                   /\ \E c \in categories : c.userId = req[p].user
                                            /\ c.name = Val(req[p].name)

(* C4: every stored expense has an amount > 0 and a valid calendar date,   *)
(* and a createExpense or updateExpense carrying an amount <= 0 or an      *)
(* unparseable date fails without touching the stored expenses.            *)
C4_StoredAmountsPositive ==
  /\ \A e \in expenses : e.amount > 0 /\ e.date \in Int
  /\ \A p \in Procs :
       (/\ req[p].op \in {"createExpense", "updateExpense"}
        /\ req[p].pc # "idle"
        /\ \/ req[p].amount # Null /\ Val(req[p].amount) <= 0
           \/ req[p].date # Null /\ ~Val(req[p].date).ok)
       => /\ req[p].pc \in {"auth_user", "done"}
          /\ req[p].pc = "done" => req[p].status >= 400 /\ req[p].data = {}

\* a request with a positive amount below half a cent has been stored
C4_SubCentStored ==
  \E p \in Procs : /\ req[p].op \in {"createExpense", "updateExpense"}
                   /\ req[p].pc = "done" /\ req[p].status \in {200, 201}
                   /\ Val(req[p].amount) > 0
                   /\ \E e \in req[p].data : e \in expenses /\ e.amount = 0

(* C5: in getCategorySummary every owned category gets its status from    *)
(* percentage = 100 * spent / limit: green below 60, yellow from 60 to 100 *)
(* inclusive, red above 100, and null when the category has no limit.      *)
(* Stated on the summary of every user in every reachable database state;  *)
(* a limit of 0 with nothing spent leaves the percentage undefined and is  *)
(* left out.                                                               *)
C5_StatusFromPercentage ==
  \A u \in users : \A s \in CategorySummary(u.id, 0) :
    IF s.monthlyLimit = Null
      THEN s.status = "null"
      ELSE LET limit == Val(s.monthlyLimit)
               spent == s.totalSpent
           IN (limit > 0 \/ spent > 0)
                => s.status = IF 100 * spent < 60 * limit THEN "green"
                              ELSE IF 100 * spent <= 100 * limit THEN "yellow"
                              ELSE "red"

\* some category has a limit of 0 and money spent in the month
C5_ZeroLimitSpent ==
  \E u \in users : \E s \in CategorySummary(u.id, 0) :
    s.monthlyLimit = Some(0) /\ s.totalSpent > 0

(* C6: for every owned category with a limit getCategorySummary reports    *)
(* percentage = 100 * spent / limit rounded to the nearest integer, 0 when *)
(* nothing was spent; the percentage is null only when no limit is set, so *)
(* it is null exactly when the status is null.                             *)
C6_PercentageRounded ==
  \A u \in users : \A s \in CategorySummary(u.id, 0) :
    /\ (s.monthlyLimit # Null /\ Val(s.monthlyLimit) > 0)
         => LET limit == Val(s.monthlyLimit)
                spent == s.totalSpent
            IN \E k \in 0..((100 * spent) \div limit + 1) :
                 /\ s.percentage = Some(k)
                 /\ 2 * (100 * spent - k * limit) < limit
                 /\ 2 * (k * limit - 100 * spent) <= limit
    /\ (s.percentage = Null) <=> (s.monthlyLimit = Null)
    /\ (s.percentage = Null) <=> (s.status = "null")

\* some category has a positive limit and nothing spent in the month
C6_LimitNothingSpent ==
  \E u \in users : \E s \in CategorySummary(u.id, 0) :
    s.monthlyLimit # Null /\ Val(s.monthlyLimit) > 0 /\ s.totalSpent = 0

(* C7: deleteCategory on an owned category referenced by N > 0 expenses     *)
(* fails with a message reporting N and leaves the category and every      *)
(* expense unchanged; on an owned category referenced by no expense it     *)
(* succeeds and removes exactly that category.  Stated on the statement    *)
(* that counts the expenses and on the statement that deletes.             *)
C7_DeleteCategoryGuard ==
  [][\A p \in Procs :
       LET id == req[p].id
           N == Cardinality({e \in expenses : e.categoryId = Some(id)})
           own == {c \in categories : c.id = id /\ c.userId = req[p].user}
       IN /\ (At(p, "cat_delete_count") /\ req'[p] # req[p] /\ own # {} /\ N > 0)
               => /\ req'[p].pc = "done"
                  /\ req'[p].status = 400
                  /\ req'[p].n = N
                  /\ categories' = categories
                  /\ expenses' = expenses
          /\ (At(p, "cat_delete_count") /\ req'[p] # req[p] /\ own # {} /\ N = 0)
               => req'[p].pc = "cat_delete"
          /\ (At(p, "cat_delete") /\ req'[p] # req[p] /\ own # {})
               => /\ req'[p].pc = "done"
                  /\ req'[p].status = 200
                  /\ categories' = categories \ own
                  /\ Cardinality(categories') = Cardinality(categories) - 1
                  /\ N = 0 => expenses' = expenses]_vars

\* a deleteCategory was refused because expenses use the category
C7_DeleteRefused ==
  \E p \in Procs : /\ req[p].op = "deleteCategory" /\ req[p].pc = "done"
                   /\ req[p].status = 400 /\ req[p].n > 0
                   /\ req[p].n = Cardinality({e \in expenses :
                                                e.categoryId = Some(req[p].id)})
                   /\ \E c \in categories : c.id = req[p].id

(* C8: for a caller with T matching expenses, getAllExpenses with page     *)
(* p >= 1 and limit L >= 1 returns min(L, max(0, T - (p-1)*L)) records and *)
(* reports total = T and totalPages = ceil(T / L); page 2 with limit 10 on *)
(* 25 expenses is 10 records and 3 pages.                                  *)
C8_Pagination ==
  \A p \in Procs :
    (/\ req[p].op = "getAllExpenses" /\ req[p].pc = "done"
     /\ req[p].page # Null /\ req[p].size # Null
     /\ Val(req[p].page) >= 1 /\ Val(req[p].size) >= 1)
    => LET T == Cardinality({e \in expenses : e.userId = req[p].user})
           pg == Val(req[p].page)
           L == Val(req[p].size)
           left == IF T - (pg - 1) * L > 0 THEN T - (pg - 1) * L ELSE 0
       IN /\ req[p].status = 200
          /\ Len(req[p].rows) = IF L < left THEN L ELSE left
          /\ \A i \in 1..Len(req[p].rows) : req[p].rows[i] \in expenses
          /\ req[p].total = T
          /\ req[p].totalPages # Null
          /\ Val(req[p].totalPages) * L >= T
          /\ (Val(req[p].totalPages) - 1) * L < T
          /\ (T = 25 /\ pg = 2 /\ L = 10)
               => Len(req[p].rows) = 10 /\ req[p].totalPages = Some(3)

\* page 2 with limit 10 on 25 expenses has been served
C8_SecondPageOf25 ==
  \E p \in Procs : /\ req[p].op = "getAllExpenses" /\ req[p].pc = "done"
                   /\ req[p].page = Some(2) /\ req[p].size = Some(10)
                   /\ Cardinality(expenses) = 25
                   /\ Len(req[p].rows) = 10 /\ req[p].totalPages = Some(3)

(* C9: in every reachable database state and for every user, the           *)
(* time-series buckets of getExpensesSummary with period=week sum to the   *)
(* sum of its category breakdown (totalExpenses) over the same window.     *)
C9_WeekSumsAgree ==
  \A u \in users :
    SumBuckets(TimeSeries(u.id, "week", now))
      = SumValues(ExpensesByCategory(u.id, "week", now))

\* an expense of this week has lost its category
C9_OrphanThisWeek ==
  \E e \in expenses : e.categoryId = Null /\ e.amount > 0
                      /\ e.date > now - 7 /\ e.date <= now

(* C10: on every category route, every expense route and GET /auth/me a    *)
(* request whose token is tampered or was issued more than 7 days earlier  *)
(* is answered 401 before the controller runs; it reads nothing from the   *)
(* database and changes no user, category or expense.                      *)
C10_BadTokenRejected ==
  [][\A p \in Procs :
       (/\ req[p].pc = "idle" /\ req'[p].pc # "idle"
        /\ req'[p].op \in {"getCurrentUser", "getAllCategories", "getCategoryById",
                           "createCategory", "updateCategory", "deleteCategory",
                           "getCategorySummary", "getAllExpenses", "getExpenseById",
                           "createExpense", "updateExpense", "deleteExpense",
                           "getExpensesSummary"}
        /\ req'[p].hdr # Null
        /\ \/ ~Val(req'[p].hdr).sig
           \/ now - Val(req'[p].hdr).iat > 7)
       => /\ req'[p].pc = "done"
          /\ req'[p].status = 401
          /\ req'[p].stmts = 0
          /\ users' = users /\ categories' = categories /\ expenses' = expenses]_vars

\* a request with a genuine token issued more than 7 days earlier was refused
C10_ExpiredRefused ==
  \E p \in Procs : /\ req[p].op \notin {"idle", "register", "login"}
                   /\ req[p].pc = "done" /\ req[p].status = 401
                   /\ req[p].hdr # Null /\ Val(req[p].hdr).sig
                   /\ now - Val(req[p].hdr).iat > 7
                   /\ users # {}

(* C11: every route except POST /auth/signup and POST /auth/login rejects  *)
(* a request that carries no 'Authorization: Bearer <token>' header.       *)
(* As stated, for every route the server exposes:                          *)
C11_EveryOtherRouteNeedsHeader ==
  [][\A p \in Procs :
       (/\ req[p].pc = "idle" /\ req'[p].pc # "idle"
        /\ req'[p].op \notin {"register", "login"}
        /\ req'[p].hdr = Null)
       => req'[p].pc = "done" /\ req'[p].status = 401]_vars

(* C11 as the code has it: every category route, every expense route and  *)
(* GET /auth/me answer a request without the header 401 'Authorization     *)
(* token required' before any statement runs, while GET /health and        *)
(* GET /api answer 200 without one.                                        *)
C11_GuardedRoutesNeedHeader ==
  [][\A p \in Procs :
       (req[p].pc = "idle" /\ req'[p].pc # "idle" /\ req'[p].hdr = Null)
       => /\ req'[p].op \in {"getCurrentUser", "getAllCategories",
                               "getCategoryById", "createCategory",
                               "updateCategory", "deleteCategory",
                               "getCategorySummary", "getAllExpenses",
                               "getExpenseById", "createExpense",
                               "updateExpense", "deleteExpense",
                               "getExpensesSummary"}
               => /\ req'[p].pc = "done"
                  /\ req'[p].status = 401
                  /\ req'[p].msg = "Authorization token required"
                  /\ req'[p].stmts = 0
                  /\ users' = users /\ categories' = categories
                  /\ expenses' = expenses
          /\ req'[p].op \in {"health", "index"}
               => req'[p].pc = "done" /\ req'[p].status = 200]_vars

\* a request without the header was refused on a guarded route while users exist
C11_NoHeaderRefused ==
  \E p \in Procs : /\ req[p].op \in {"deleteCategory", "getAllExpenses",
                                       "getCurrentUser"}
                   /\ req[p].pc = "done" /\ req[p].hdr = Null
                   /\ req[p].status = 401 /\ users # {}

(* C12: signup, login, createCategory 'Travel' with limit 300,             *)
(* createExpense of 120 in Travel dated today, getCategorySummary for the  *)
(* current month: every step succeeds and the summary's entry for Travel   *)
(* has totalSpent 120, percentage 40 and status green.                     *)
C12_EndToEnd ==
  /\ \A p \in Procs : req[p].pc = "done" => req[p].status \in {200, 201}
  /\ \A p \in Procs :
       (req[p].op = "getCategorySummary" /\ req[p].pc = "done")
       => \E s \in req[p].data :
            /\ s.name = "Travel"
            /\ \A t \in req[p].data : t.name = "Travel" => t = s
            /\ \E e \in expenses : s.totalSpent = e.amount
            /\ (s.monthlyLimit = Some(30000) /\ s.totalSpent = 12000)
                 => s.percentage = Some(40) /\ s.status = "green"
            /\ (\E e \in expenses : e.amount = 12000) => s.totalSpent = 12000

\* the summary that ends the sequence shows Travel at 120 of 300
C12_TravelAtForty ==
  \E p \in Procs :
    /\ req[p].op = "getCategorySummary" /\ req[p].pc = "done" /\ nreq = 5
    /\ \E s \in req[p].data :
         /\ s.name = "Travel" /\ s.monthlyLimit = Some(30000)
         /\ s.totalSpent = 12000 /\ s.percentage = Some(40)
         /\ s.status = "green"

(* C13: a failed login gets the same response, status and 'Invalid          *)
(* credentials' message alike, whether the email is unknown or the         *)
(* password does not match: for two users tables that differ only in the   *)
(* row of the email, a login with a non-matching password is answered      *)
(* identically.                                                            *)
C13_LoginFailuresAlike ==
  /\ \A e \in Emails, pw \in {"secret", "wrong!"} :
       \A u \in users :
         (u.email = e /\ u.password # pw)
         => LET r == LoginReq(e, pw)
            IN /\ LoginOutcome(users, r) = LoginOutcome(users \ {u}, r)
               /\ LoginOutcome(users, r).status = 400
               /\ LoginOutcome(users, r).msg = "Invalid credentials"
  /\ \A p \in Procs :
       (/\ req[p].op = "login" /\ req[p].pc = "done"
        /\ req[p].stmts = 1 /\ req[p].status # 200)
       => /\ req[p].status = 400
          /\ req[p].msg = "Invalid credentials"
          /\ req[p].user = 0 /\ req[p].data = {}

\* a login with a wrong password for a registered email has been refused
C13_WrongPasswordRefused ==
  \E p \in Procs : /\ req[p].op = "login" /\ req[p].pc = "done"
                   /\ req[p].status = 400
                   /\ \E u \in users : u.email = req[p].email
                                       /\ u.password # req[p].password

(* C15: a login with an unknown email or a non-matching password is        *)
(* answered with status 401, the status authenticate uses for a missing    *)
(* or invalid token.                                                       *)
C15_FailedLoginIs401 ==
  \A p \in Procs :
    (/\ req[p].op = "login" /\ req[p].pc = "done"
     /\ ~\E u \in users : u.email = req[p].email /\ u.password = req[p].password)
    => req[p].status = 401

\* a login with an email no user has was answered
C15_UnknownEmailAnswered ==
  \E p \in Procs : /\ req[p].op = "login" /\ req[p].pc = "done"
                   /\ req[p].stmts = 1
                   /\ ~\E u \in users : u.email = req[p].email

(* C14: every request whose body fails input validation - register with a  *)
(* too-short name or password or a malformed email, createCategory with an *)
(* empty name or a negative limit, createExpense or updateExpense with a   *)
(* non-positive amount or an unparseable date - is answered with status    *)
(* 400.  Stated on the requests that got past authenticate.                *)
C14_InvalidBodyIs400 ==
  \A p \in Procs :
    LET r == req[p]
        bad ==
          \/ /\ r.op = "register"
             /\ \/ r.nameLen < 2
                \/ Len(r.password) < 6
                \/ r.email \notin {"a@x.io", "b@x.io"}
          \/ /\ r.op = "createCategory" /\ r.user # 0
             /\ \/ r.name = Some("")
                \/ r.limit # Null /\ Val(r.limit) < 0
          \/ /\ r.op \in {"createExpense", "updateExpense"} /\ r.user # 0
             /\ \/ r.amount # Null /\ Val(r.amount) <= 0
                \/ r.date # Null /\ ~Val(r.date).ok
    IN (r.pc = "done" /\ bad) => r.status = 400

\* a signup with a one-letter name has been answered
C14_ShortNameAnswered ==
  \E p \in Procs : /\ req[p].op = "register" /\ req[p].pc = "done"
                   /\ req[p].nameLen = 1 /\ req[p].stmts = 0

(* C16: in every interleaving of concurrent requests - two createCategory  *)
(* calls of one user with one name, two updateCategory calls renaming two  *)
(* categories of one user to one name, two register calls with one email - *)
(* a request that cannot be applied is answered with the specific conflict *)
(* response; no unique-constraint violation reaches a client as a 500.     *)
C16_NoRawConstraintError ==
  \A p \in Procs :
    (/\ req[p].pc = "done"
     /\ req[p].status \notin {200, 201, 404}
     /\ \/ /\ req[p].op = "register"
           /\ \E u \in users : u.email = req[p].email
        \/ /\ req[p].op \in {"createCategory", "updateCategory"}
           /\ req[p].name # Null
           /\ \E c \in categories : /\ c.userId = req[p].user
                                    /\ c.name = Val(req[p].name)
                                    /\ c.id # req[p].id)
    => /\ req[p].status = 400
       /\ req[p].msg \in {"User with this email already exists",
                          "You already have a category with this name"}

\* one of two concurrent renames to one name was stopped by the index
C16_RenameRaceLost ==
  \E p \in Procs : /\ req[p].op = "updateCategory" /\ req[p].pc = "done"
                   /\ req[p].status = 500 /\ req[p].msg = "P2002"
                   /\ \E c \in categories : c.userId = req[p].user
                                            /\ c.name = Val(req[p].name)
                                            /\ c.id # req[p].id

(* C17: for distinct users A and B no category or expense operation        *)
(* authenticated as A reads, modifies or deletes a category or expense of  *)
(* B: get, update and delete by the id of a resource of B (an update with  *)
(* a body that passes its schema) return 404 and leave it unchanged, and   *)
(* the list and summary results for A hold only data owned by A.           *)
C17_OwnerIsolation ==
  /\ [](\A p \in Procs :
          LET r == req[p]
              A == r.user
              mine == {e \in expenses : e.userId = A}
          IN (r.pc = "done" /\ A # 0)
             => /\ (/\ r.op \in {"getCategoryById", "updateCategory",
                                 "deleteCategory"}
                    /\ r.op = "updateCategory" => UpdateCategorySchemaOK(r)
                    /\ \E c \in categories : c.id = r.id /\ c.userId # A)
                     => r.status = 404 /\ r.data = {}
                /\ (/\ r.op \in {"getExpenseById", "updateExpense",
                                 "deleteExpense"}
                    /\ r.op = "updateExpense" => UpdateExpenseSchemaOK(r)
                    /\ \E e \in expenses : e.id = r.id /\ e.userId # A)
                     => r.status = 404 /\ r.data = {}
                /\ \A x \in r.data :
                     /\ "userId" \in DOMAIN x => x.userId = A
                     /\ "userId" \notin DOMAIN x
                          => \E c \in categories : c.id = x.id /\ c.userId = A
                     /\ "totalSpent" \in DOMAIN x
                          => x.totalSpent <= SumAmounts(mine)
                     /\ "value" \in DOMAIN x => x.value <= SumAmounts(mine)
                /\ \A i \in 1..Len(r.rows) : r.rows[i].userId = A
                /\ SumBuckets(r.series) <= SumAmounts(mine))
  /\ [][\A p \in Procs :
          (req'[p] # req[p] /\ req[p].user # 0)
          => LET A == req[p].user
             IN /\ users' = users
                /\ {c \in categories' : c.userId # A}
                     = {c \in categories : c.userId # A}
                /\ {e \in expenses' : e.userId # A}
                     = {e \in expenses : e.userId # A}]_vars

\* a deleteExpense naming another user's expense was answered 404
C17_ForeignDeleteRefused ==
  \E p \in Procs : /\ req[p].op = "deleteExpense" /\ req[p].pc = "done"
                   /\ req[p].status = 404
                   /\ \E e \in expenses : e.id = req[p].id
                                          /\ e.userId # req[p].user

(* C18: once a user row has been deleted, every later request presenting a *)
(* token issued to that user, unexpired and correctly signed or not, is    *)
(* answered 401 by authenticate, and req.user is attached only when the    *)
(* token verifies and the user still exists.                               *)
C18_DeletedUserRejected ==
  [][/\ \A t \in tokens :
          (~\E u \in users : u.id = t.userId)
          => ~\E u \in users' : u.id = t.userId
     /\ \A p \in Procs :
          LET gone == /\ req'[p].hdr # Null
                      /\ ~\E u \in users : u.id = Val(req'[p].hdr).userId
          IN /\ (/\ req[p].pc = "idle" /\ req'[p].pc # "idle"
                 /\ req'[p].op \notin {"register", "login", "health", "index"}
                 /\ gone)
                  => /\ req'[p].user = 0
                     /\ \/ req'[p].pc = "auth_user"
                        \/ req'[p].pc = "done" /\ req'[p].status = 401
             /\ (req[p].pc = "auth_user" /\ req'[p] # req[p] /\ gone)
                  => /\ req'[p].pc = "done"
                     /\ req'[p].status = 401
                     /\ req'[p].user = 0
                     /\ users' = users /\ categories' = categories
                     /\ expenses' = expenses
             /\ (req[p].user = 0 /\ req'[p].user # 0 /\ req'[p].op # "login"
                 /\ req'[p].op # "register")
                  => /\ req[p].pc = "auth_user"
                     /\ Val(req[p].hdr).sig
                     /\ Val(req[p].hdr).userId = req'[p].user
                     /\ \E u \in users : u.id = req'[p].user]_vars

\* a request with a genuine, unexpired token of a deleted user was refused
C18_GoneUserRefused ==
  \E p \in Procs : /\ req[p].pc = "done" /\ req[p].status = 401
                   /\ req[p].msg = "User not found or unauthorized"
                   /\ Val(req[p].hdr).sig /\ now < Val(req[p].hdr).exp
                   /\ ~\E u \in users : u.id = Val(req[p].hdr).userId

(* C19: deleteExpense is owner-scoped and idempotent: it answers 200 only   *)
(* when it removed an expense of the caller, and 404 when the expense is    *)
(* missing, not the caller's or already deleted, also when two deletions   *)
(* of one expense are in flight together; no other response is sent.       *)
C19_DeleteOwnerScopedIdempotent ==
  /\ \A p \in Procs :
       (req[p].op = "deleteExpense" /\ req[p].pc = "done" /\ req[p].user # 0)
         => req[p].status \in {200, 404}
  /\ \A id \in DeleteTargets :
       Cardinality({p \in Procs : /\ req[p].op = "deleteExpense"
                                  /\ req[p].pc = "done" /\ req[p].id = id
                                  /\ req[p].status = 200}) <= 1

\* the second of two overlapping deletions of one expense got the raw error
C19_SecondDeleteFailed ==
  \E p, q \in Procs :
    /\ p # q /\ req[p].id = req[q].id
    /\ req[p].op = "deleteExpense" /\ req[p].pc = "done" /\ req[p].status = 200
    /\ req[q].op = "deleteExpense" /\ req[q].pc = "done" /\ req[q].status = 500
    /\ req[q].msg = "P2025"

(* C20: registration writes the user row and the default categories in one *)
(* statement: the step that inserts a users row inserts its five default   *)
(* categories with it, and in no state, whenever the server process exits, *)
(* is there a user who lacks a default category.                           *)
C20_UserNeverWithoutDefaults ==
  /\ [](\A u \in users : \A d \in DefaultCategories :
          \E c \in categories : c.userId = u.id /\ c.name = d.name)
  /\ [][\A u \in users' \ users :
          Cardinality({c \in categories' \ categories : c.userId = u.id}) = 5]_vars

\* a signup was cut off after its email lookup and before its create, next
\* to a registered user: the cut-off signup left no row at all
C20_CrashBeforeCreate ==
  \E p \in Procs :
    /\ req[p].op = "register" /\ req[p].pc = "crashed" /\ req[p].stmts = 1
    /\ ~\E u \in users : u.email = req[p].email
    /\ users # {}

(* C20 as stated: the user row and the default categories are written in   *)
(* two steps, so the step that inserts a users row inserts no category and *)
(* leaves the new user owning none.                                        *)
C20_UserRowBeforeCategories ==
  [][\A u \in users' \ users :
       ~\E c \in categories' : c.userId = u.id]_vars

(* C21: createExpense and updateExpense given a categoryId that names no    *)
(* category of the caller (none at all, or one of another user) answer 400 *)
(* 'Invalid category' and change nothing: no expense is created and the    *)
(* targeted expense keeps its category and fields.                         *)
C21_InvalidCategoryRejected ==
  [][\A p \in Procs :
       LET r == req'[p]
       IN (/\ req[p] # r /\ r.pc = "done"
           /\ r.op \in {"createExpense", "updateExpense"}
           /\ r.user # 0 /\ r.categoryId # Null
           /\ FindCategory(Val(r.categoryId), r.user) = {}
           /\ r.op = "updateExpense" => FindExpense(r.id, r.user) # {})
          => /\ r.status = 400 /\ r.msg = "Invalid category"
             /\ expenses' = expenses /\ categories' = categories]_vars

\* an expense was refused for a category that belongs to the other user
C21_ForeignCategoryRefused ==
  \E p \in Procs :
    /\ req[p].pc = "done" /\ req[p].op = "createExpense"
    /\ req[p].status = 400 /\ req[p].msg = "Invalid category"
    /\ \E c \in categories : c.id = Val(req[p].categoryId) /\ c.userId # req[p].user

\* an expense with a categoryId that is not a uuid got the raw parse error
C21_MalformedCategoryAnswered ==
  \E p \in Procs :
    /\ req[p].pc = "done" /\ req[p].op \in {"createExpense", "updateExpense"}
    /\ req[p].categoryId = Some(0)
    /\ req[p].status = 500 /\ req[p].msg = "ZodError"

(* C22: updateExpense and updateCategory are partial patches: a field      *)
(* present in the request takes the requested value, a field absent from   *)
(* it and the owner and the id keep the value they had, and no other       *)
(* expense or category is changed.                                         *)
C22_PartialPatch ==
  [][\A p \in Procs :
       LET r == req[p]
       IN /\ (At(p, "exp_update") /\ req'[p].status = 200)
              => \E old \in expenses : \E new \in expenses' :
                   /\ old.id = r.id /\ new.id = r.id /\ new.userId = old.userId
                   /\ IF r.amount # Null THEN 10 * new.amount = Val(r.amount)
                                         ELSE new.amount = old.amount
                   /\ IF r.categoryId # Null THEN new.categoryId = r.categoryId
                                             ELSE new.categoryId = old.categoryId
                   /\ IF r.date # Null THEN new.date = Val(r.date).day
                                       ELSE new.date = old.date
                   /\ expenses' \ {new} = expenses \ {old}
                   /\ categories' = categories
          /\ (At(p, "cat_update") /\ req'[p].status = 200)
              => \E old \in categories : \E new \in categories' :
                   /\ old.id = r.id /\ new.id = r.id /\ new.userId = old.userId
                   /\ IF r.name # Null THEN new.name = Val(r.name)
                                       ELSE new.name = old.name
                   /\ IF r.limit # Null
                        THEN /\ new.monthlyLimit # Null
                             /\ 10 * Val(new.monthlyLimit) = Val(r.limit)
                        ELSE new.monthlyLimit = old.monthlyLimit
                   /\ categories' \ {new} = categories \ {old}
                   /\ expenses' = expenses]_vars

\* an expense patched with an amount of three decimals holds another amount
C22_AmountNotAsRequested ==
  \E p \in Procs :
    /\ req[p].op = "updateExpense" /\ req[p].pc = "done" /\ req[p].status = 200
    /\ req[p].amount # Null
    /\ \E e \in expenses : e.id = req[p].id /\ 10 * e.amount # Val(req[p].amount)

(* C23: for a valid month getCategorySummary returns one entry for every   *)
(* category the caller owns, also those without an expense (totalSpent 0), *)
(* and each entry's totalSpent is the sum of the amounts of exactly the    *)
(* expenses of that category dated within that month, first and last day   *)
(* included.                                                               *)
C23_MonthlyTotals ==
  \A p \in Procs :
    LET r == req[p]
    IN (r.op = "getCategorySummary" /\ r.pc = "done" /\ r.user # 0
        /\ r.month # Null)
       => /\ r.status = 200
          /\ {x.id : x \in r.data} = {c.id : c \in {y \in categories : y.userId = r.user}}
          /\ Cardinality(r.data) = Cardinality({x.id : x \in r.data})
          /\ \A x \in r.data :
               x.totalSpent =
                 SumAmounts({e \in expenses : /\ e.categoryId = Some(x.id)
                                              /\ MonthOf(e.date) = Val(r.month)})

\* a summary of month 0 counted an expense of its last day and one of its
\* first day, left out the neighbouring days, and listed an unused category
C23_EdgeDaysCounted ==
  \E p \in Procs :
    /\ req[p].op = "getCategorySummary" /\ req[p].pc = "done"
    /\ req[p].month = Some(0) /\ req[p].user = 1
    /\ \E e, f \in expenses :
         /\ e.categoryId = Some(2) /\ e.date = MonthEnd(0)
         /\ f.categoryId = Some(3) /\ f.date = MonthStart(0)
    /\ \E x \in req[p].data : x.id = 2 /\ x.totalSpent > 0
    /\ \E x \in req[p].data : x.id = 4 /\ x.totalSpent = 0

(* C24: getExpensesSummary returns the category breakdown sorted by amount *)
(* descending, each entry with percentage = round(100 * amount / total)    *)
(* where total is the sum of the breakdown amounts, and the time-series    *)
(* buckets in chronological order, one per day for week and month and one  *)
(* per month for year, over the trailing 30 days for any period other than *)
(* week and year.                                                          *)
C24_BreakdownAndSeries ==
  \A p \in Procs :
    LET r == req[p]
        b == r.breakdown
        t == r.timeline
        mine == {e \in expenses : e.userId = r.user}
        days == IF r.period = "week" THEN 7 ELSE IF r.period = "year" THEN 365 ELSE 30
        label(e) == IF r.period = "year" THEN MonthOf(e.date) ELSE e.date
    IN (r.op = "getExpensesSummary" /\ r.pc = "done" /\ r.user # 0)
       => /\ r.status = 200
          /\ \A i, j \in DOMAIN b : i < j => b[i].value >= b[j].value
          /\ r.total = SumValues({b[i] : i \in DOMAIN b})
          /\ \A i \in DOMAIN b :
               /\ b[i].percentage # Null
               /\ LET q == Val(b[i].percentage)
                  IN /\ 2 * r.total * q <= 200 * b[i].value + r.total
                     /\ 200 * b[i].value + r.total < 2 * r.total * (q + 1)
          /\ \A i, j \in DOMAIN t : i < j => t[i].period < t[j].period
          /\ \A e \in mine : (r.today - e.date) \in 0..(days - 1)
                               => \E i \in DOMAIN t : t[i].period = label(e)
          /\ \A i \in DOMAIN t :
               /\ \E e \in mine : /\ (r.today - e.date) \in 0..days
                                   /\ t[i].period = label(e)
               /\ t[i].amount >=
                    SumAmounts({e \in mine : /\ label(e) = t[i].period
                                             /\ (r.today - e.date) \in 0..(days - 1)})
               /\ t[i].amount <=
                    SumAmounts({e \in mine : /\ label(e) = t[i].period
                                             /\ (r.today - e.date) \in 0..days})

\* a breakdown whose amounts are all 0.00 came back without percentages
C24_PercentageNotANumber ==
  \E p \in Procs :
    /\ req[p].op = "getExpensesSummary" /\ req[p].pc = "done"
    /\ req[p].status = 200 /\ Len(req[p].breakdown) > 0
    /\ \E i \in DOMAIN req[p].breakdown : req[p].breakdown[i].percentage = Null

(* C25: errorHandler answers an error that is not of a known kind with     *)
(* status 500 and a generic message, and puts the stack trace in the       *)
(* response only when NODE_ENV is development, not in production and not   *)
(* when it is unset.                                                       *)
C25_UnknownErrorGeneric ==
  \A p \in Procs :
    LET r == req[p]
    IN (r.pc = "done" /\ r.error \notin {"", "Authentication error"})
       => /\ r.status = 500
          /\ r.msg = "Internal Server Error"
          /\ r.error = "err.stack" => r.nodeEnv = Some("development")

\* with NODE_ENV not set, a body that failed its schema came back with the
\* stack trace
C25_StackWhenUnset ==
  \E p \in Procs :
    /\ req[p].pc = "done" /\ req[p].status = 500 /\ req[p].msg = "ZodError"
    /\ req[p].error = "err.stack" /\ req[p].nodeEnv = Null

(* C26: every request handled by register, login, authenticate and the     *)
(* category and expense controllers gets exactly one response: a handler   *)
(* that has sent a response has finished, and never goes on to a second    *)
(* send or to next(error).                                                 *)
C26_ExactlyOneResponse ==
  \A p \in Procs :
    /\ req[p].pc = "done" => req[p].sends = 1
    /\ req[p].pc \notin {"done", "idle"} => req[p].sends = 0

\* a signup with a registered email sent its 400 and then a second body
C26_SecondSend ==
  \E p \in Procs :
    /\ req[p].op = "register" /\ req[p].pc = "done"
    /\ req[p].status = 400 /\ req[p].sends = 2

(* C27: after any sequence of API operations, in any interleaving, every   *)
(* expense whose category reference is not null references an existing     *)
(* category owned by the user who owns the expense.                        *)
C27_CategoryReferenceOwned ==
  \A e \in expenses :
    e.categoryId # Null
      => \E c \in categories : c.id = Val(e.categoryId) /\ c.userId = e.userId

\* an expense was moved to another category of its owner
C27_ExpenseRecategorized ==
  \E p \in Procs :
    /\ req[p].op = "updateExpense" /\ req[p].pc = "done" /\ req[p].status = 200
    /\ req[p].categoryId # Null
    /\ \E e \in expenses : e.id = req[p].id /\ e.categoryId = req[p].categoryId

(* C28: in every interleaving of deleteCategory with createExpense and     *)
(* updateExpense of the same user, deleteCategory removes the category     *)
(* only if no expense references it at the instant of removal, so no       *)
(* expense created through the API ends with a null category reference.    *)
C28_DeleteOnlyUnreferenced ==
  /\ [][\A p \in Procs :
          (At(p, "cat_delete") /\ categories' # categories)
          => ~\E e \in expenses : e.categoryId = Some(req[p].id)]_vars
  /\ [](\A e \in expenses : e.categoryId # Null)

\* a category was deleted after an expense had been created in it: both
\* requests succeeded and the expense is left uncategorized
C28_ExpenseOrphaned ==
  \E p, q \in Procs :
    /\ req[p].op = "deleteCategory" /\ req[p].pc = "done" /\ req[p].status = 200
    /\ req[q].op = "createExpense" /\ req[q].pc = "done" /\ req[q].status = 201
    /\ req[q].categoryId = Some(req[p].id)
    /\ \E x \in req[q].data : \E e \in expenses : e.id = x.id /\ e.categoryId = Null

(* C29: a monthly limit given to createCategory or updateCategory round-    *)
(* trips: for every nonnegative limit L, zero included, the stored category *)
(* has monthlyLimit = L afterwards, both operations store the same value    *)
(* for the same L, and a created category has no limit only when none was   *)
(* given.                                                                   *)
C29_LimitRoundTrips ==
  [][\A p \in Procs :
       LET r == req[p]
       IN ((At(p, "cat_create") \/ At(p, "cat_update")) /\ req'[p].status \in {200, 201})
          => \A c \in req'[p].data :
               /\ c \in categories'
               /\ r.limit # Null => /\ c.monthlyLimit # Null
                                    /\ 10 * Val(c.monthlyLimit) = Val(r.limit)
               /\ (At(p, "cat_create") /\ c.monthlyLimit = Null) => r.limit = Null]_vars

\* a category created with the limit 0 is stored without a limit
C29_ZeroLimitDropped ==
  \E p \in Procs :
    /\ req[p].op = "createCategory" /\ req[p].pc = "done" /\ req[p].status = 201
    /\ req[p].limit = Some(0)
    /\ \E c \in req[p].data : c.monthlyLimit = Null

(* C30: for every page and limit query value a client can send to          *)
(* getAllExpenses (absent, zero, negative or non-numeric included) the     *)
(* offset (page - 1) * limit handed to the database is a nonnegative       *)
(* integer, the page size is a positive integer and the reported           *)
(* totalPages is a finite nonnegative integer.                             *)
C30_PagingArgumentsSane ==
  \A p \in Procs :
    LET r == req[p]
    IN (r.op = "getAllExpenses" /\ r.pc = "done" /\ r.user # 0)
       => /\ r.status = 200
          /\ r.skip # Null /\ Val(r.skip) >= 0
          /\ r.take # Null /\ Val(r.take) > 0
          /\ r.totalPages # Null /\ Val(r.totalPages) >= 0

\* limit=0 was accepted: a page size of 0 and a totalPages that is no number
C30_ZeroLimitAccepted ==
  \E p \in Procs :
    /\ req[p].op = "getAllExpenses" /\ req[p].pc = "done" /\ req[p].status = 200
    /\ req[p].size = Some(0) /\ req[p].take = Some(0)
    /\ req[p].totalPages = Null /\ req[p].total > 0
====
